---- MODULE Spec2Model ----
(***************************************************************************)
(* A state-machine model of astrobase/checkplotserver_handlers.py: the     *)
(* Tornado handlers CheckplotHandler (get = load, post = update),          *)
(* CheckplotListHandler (get/post = manifest read/write) and LCToolHandler *)
(* (get = tool dispatch), the executor they submit work to, the checkplot  *)
(* pickles on disk and the checkplot-filelist.json manifest.               *)
(*                                                                         *)
(* One action is one run of the single-threaded IOLoop: a handler from its *)
(* entry to its first `yield` (or to its end), a handler from the          *)
(* resumption of a `yield` to the next one (or to its end), or one step of *)
(* a task on an executor thread.                                           *)
(***************************************************************************)
EXTENDS Integers, Sequences, FiniteSets, TLC

\* Number of requests the server receives in one behaviour.
MaxReqs == 2

ReqIds == 1..MaxReqs

VARIABLES
    readonly,        \* self.readonly: process-wide, fixed at start-up
    currentproject,  \* self.currentproject (cplist): the in-memory manifest dict
    cplistfile,      \* content of the file self.cplistfile
    cpfiles,         \* checkplot pickles on disk: path -> cpdict (DOMAIN = existing files)
    pngfiles,        \* set of .png paths that exist on disk
    reqs,            \* per request: arguments, handler position, response
    futures,         \* per request: the future it is (or was last) suspended on
    submitted,       \* log of executor.submit calls, in order
    nreq             \* number of requests received so far

vars == <<readonly, currentproject, cplistfile, cpfiles, pngfiles,
          reqs, futures, submitted, nreq>>

-----------------------------------------------------------------------------
(* Paths, identifiers and their conversions *)

ProjectDir == "/project"

\* os.path.join(os.path.abspath(os.path.dirname(self.cplistfile)), fname)
CpfPath(fname) == <<ProjectDir, fname>>

\* os.path.abspath(cpfpath.replace('.pkl','.png'))
CpfPng(cpfpath) == <<cpfpath[1], cpfpath[2], "png">>

\* tornado.escape.xhtml_escape: & < > " ' become entities; the names of the
\* model that hold such a character are listed with their escaped form.
XhtmlEscape(s) ==
    CASE s = "a&b.pkl" -> "a&amp;b.pkl"
      [] s = "a&b"     -> "a&amp;b"
      [] OTHER         -> s

\* The URL token carrying a checkplot name: empty, not valid base64, or the
\* base64 encoding of a name.
EmptyToken == [enc |-> "empty", of |-> ""]
BadToken   == [enc |-> "bad", of |-> ""]
Tok(name)  == [enc |-> "b64", of |-> name]

\* base64.b64decode(token): raises on a malformed token
B64DecodeRaises(tok) == tok.enc = "bad"
B64Decode(tok)       == tok.of

\* A request argument as self.get_argument(name, None) returns it: absent
\* (None), the empty string, or a non-empty string. A non-empty string is
\* either JSON text (val = the value it parses to) or not parseable.
NoArg      == [kind |-> "absent"]
EmptyArg   == [kind |-> "empty"]
BadJson    == [kind |-> "bad"]
JsonArg(v) == [kind |-> "json", val |-> v]
StrArg(s)  == [kind |-> "str", val |-> s]

\* Python truthiness of an argument: None and '' are falsy
Truthy(arg) == arg.kind \notin {"absent", "empty"}

\* json.loads(arg): TypeError on None, ValueError on '' or malformed text
JsonLoadsRaises(arg) == arg.kind # "json"
JsonLoads(arg)       == arg.val

EmptyMap == [k \in {} |-> k]

-----------------------------------------------------------------------------
(* The response of a tornado.web.RequestHandler *)

NewResponse == [status |-> 200, body |-> <<>>, finished |-> FALSE]

\* RequestHandler.write(chunk): raises RuntimeError once the request is
\* finished, else appends the chunk to the write buffer.
WriteRaises(r) == r.finished
Write(r, chunk) == [r EXCEPT !.body = Append(@, chunk)]

\* RequestHandler.finish(): flushes status and buffer to the client. (Called
\* twice it raises, but every finish() of the handlers follows a write(),
\* which raises first.)
Finish(r) == [r EXCEPT !.finished = TRUE]

\* RequestHandler.set_status(code): sets the code of a response not yet
\* flushed; after finish() the client already has the status line.
SetStatus(r, code) == IF r.finished THEN r ELSE [r EXCEPT !.status = code]

\* What RequestHandler._execute does when the handler method returns: finish
\* the request if the handler did not (_auto_finish).
AutoFinish(r) == IF r.finished THEN r ELSE Finish(r)

\* What RequestHandler._execute does with an exception that leaves the handler
\* method (_handle_request_exception): nothing more can be sent on a finished
\* request; otherwise send_error(500) replaces the buffer by the error page.
TornadoErrorPage == [html |-> "500: Internal Server Error"]
HandleRequestException(r) ==
    IF r.finished THEN r
    ELSE [status |-> 500, body |-> <<TornadoErrorPage>>, finished |-> TRUE]

-----------------------------------------------------------------------------
(* Response envelopes (the resultdict literals of the handlers) *)

None == [none |-> TRUE]
Msg(text, args) == [text |-> text, args |-> args]

\* lines 170-172 and 630-632: no 'readonly' key
CouldntFindNoReadonly(cpfpath) ==
    [status |-> "error",
     message |-> Msg("couldn't find checkplot %s", <<cpfpath>>),
     result |-> None]

\* lines 355-358
CouldntFind(cpfpath) ==
    [status |-> "error",
     message |-> Msg("couldn't find checkplot %s", <<cpfpath>>),
     readonly |-> readonly,
     result |-> None]

ErrorEnvelope(text) ==
    [status |-> "error", message |-> Msg(text, <<>>),
     readonly |-> readonly, result |-> None]

\* lines 275-278 and 657-660
DoesntExist == ErrorEnvelope("This checkplot doesn't exist.")
\* lines 285-288 and 667-670
NoCheckplotProvided == ErrorEnvelope("No checkplot provided to load.")
\* lines 308-312 and 479-483
ReadonlyMode ==
    ErrorEnvelope("checkplotserver is in readonly mode. no updates allowed.")
\* lines 326-330
NoPayload == ErrorEnvelope("did not receive a checkplot update payload")
\* lines 402-406
BackendError ==
    ErrorEnvelope("checkplot update failed because of a backend error")
\* lines 416-420
UpdateException ==
    ErrorEnvelope("checkplot update failed because of an exception")
\* lines 494-500
CouldNotParse ==
    ErrorEnvelope("could not parse changes to the checkplot filelist from the frontend")

-----------------------------------------------------------------------------
(* Checkplot dicts (the unpickled records) *)

\* An image blob as stored in the pickle: base64 held as bytes or as str
Blob(enc, data) == [enc |-> enc, data |-> data]
\* `if isinstance(x, bytes): x = x.decode()`
DecodeIfBytes(x) == IF x.enc = "bytes" THEN [x EXCEPT !.enc = "str"] ELSE x

\* A number as stored in the pickle (a numpy scalar) and after float(x)
Num(type, n) == [type |-> type, n |-> n]
Float(x) == [type |-> "float", n |-> x.n]

\* One phase-folded entry cpdict[key][N] and one period-search entry
\* cpdict[key]; the integer keys 0, 1, 2 of the source are phased[1..3].
PhasedLC(plot, period, epoch) ==
    [plot |-> Blob("bytes", plot), period |-> Num("np", period),
     epoch |-> Num("np", epoch)]
GlsResult ==
    [nbestperiods |-> <<Num("np", 3), Num("np", 5), Num("np", 7)>>,
     periodogram |-> Blob("bytes", "gls-pgram"),
     bestperiod |-> Num("np", 3),
     phased |-> <<PhasedLC("gls-lc0", 3, 10), PhasedLC("gls-lc1", 5, 10),
                  PhasedLC("gls-lc2", 7, 10)>>]

\* A user-editable value (a dict or list in the source)
V(s) == [v |-> s]

Obj1Record ==
    [objectid |-> "obj1", objectinfo |-> V("oi0"), varinfo |-> V("vi0"),
     comments |-> V("c0"), status |-> "ok",
     finderchart |-> Blob("bytes", "finder1"),
     magseries |-> [plot |-> Blob("str", "mags1"), times |-> [size |-> 3]],
     gls |-> GlsResult]

\* a record the pipeline wrote without comments and without period searches
StrayRecord ==
    [objectid |-> "stray", objectinfo |-> V("oi0"), varinfo |-> V("vi0"),
     status |-> "ok",
     finderchart |-> Blob("str", "finder2"),
     magseries |-> [plot |-> Blob("bytes", "mags2"), times |-> [size |-> 2]]]

\* a period search that found two peaks only: cpdict[key] has the integer
\* keys 0 and 1 and no key 2
BlsShortResult ==
    [nbestperiods |-> <<Num("np", 2), Num("np", 4)>>,
     periodogram |-> Blob("bytes", "bls-pgram"),
     bestperiod |-> Num("np", 2),
     phased |-> <<PhasedLC("bls-lc0", 2, 10), PhasedLC("bls-lc1", 4, 10)>>]

\* a record without comments whose bls search has two phased entries
ShortRecord ==
    [objectid |-> "short", objectinfo |-> V("oi0"), varinfo |-> V("vi0"),
     status |-> "ok",
     finderchart |-> Blob("bytes", "finder3"),
     magseries |-> [plot |-> Blob("bytes", "mags3"), times |-> [size |-> 4]],
     bls |-> BlsShortResult]

\* The project at start-up: obj1.pkl, a&b.pkl and short.pkl are listed and on
\* disk, obj2.pkl is listed but its file is missing, stray.pkl is on disk but
\* not listed.
InitCheckplots == <<"obj1.pkl", "obj2.pkl", "a&b.pkl", "short.pkl">>
InitFiles ==
    [p \in {CpfPath("obj1.pkl"), CpfPath("stray.pkl"), CpfPath("a&b.pkl"),
            CpfPath("short.pkl")} |->
        CASE p = CpfPath("obj1.pkl")  -> Obj1Record
          [] p = CpfPath("short.pkl") -> ShortRecord
          [] OTHER                    -> StrayRecord]

\* os.path.exists(path)
PathExists(cpfpath) == cpfpath \in DOMAIN cpfiles
PngExists(cpfpng) == cpfpng \in pngfiles

\* the directory, not the manifest, decides membership
InProject_OnDisk(fname) == PathExists(CpfPath(fname))

\* `self.checkplotfname in self.currentproject['checkplots']`
InProject(fname) ==
    \E i \in DOMAIN currentproject.checkplots :
        currentproject.checkplots[i] = fname

-----------------------------------------------------------------------------
(* Functions of astrobase.checkplot run on the executor *)

\* _read_checkplot_picklefile(cpfpath): the unpickled dict; raises when the
\* file cannot be opened
ReadPickleRaises(cpfpath) == ~PathExists(cpfpath)
ReadPickle(cpfpath) == cpfiles[cpfpath]

\* checkplot_pickle_update(currentcp, updatedcp): the read dict overlaid with
\* the updated keys (dict.update), which is then written back
MergeCheckplot(current, updated) ==
    [k \in DOMAIN current \cup DOMAIN updated |->
        IF k \in DOMAIN updated THEN updated[k] ELSE current[k]]

\* Outcomes of an executor task besides returning its value: any task may
\* raise; the update may fail to serialise (nothing written, falsy return);
\* the renderer may return without having written the file.
ReadOutcomes   == {"value", "exc"}
SaveOutcomes   == {"value", "none"}
RenderOutcomes == {"value", "none", "exc"}

-----------------------------------------------------------------------------
(* CheckplotHandler.get, lines 186-265: the response built from a read dict *)

PgramKeys == {"pdm", "aov", "bls", "gls", "sls"}
RequiredKeys ==
    {"objectid", "objectinfo", "varinfo", "finderchart", "magseries", "status"}

\* the second and third phased entries change places
LspInfo_Swapped(lsp) ==
    LET phasedlc(n) == [plot   |-> DecodeIfBytes(lsp.phased[n + 1].plot),
                        period |-> Float(lsp.phased[n + 1].period),
                        epoch  |-> Float(lsp.phased[n + 1].epoch)]
    IN [nbestperiods |-> lsp.nbestperiods,
        periodogram  |-> DecodeIfBytes(lsp.periodogram),
        bestperiod   |-> lsp.bestperiod,
        phasedlc0 |-> phasedlc(0),
        phasedlc1 |-> phasedlc(2),
        phasedlc2 |-> phasedlc(1)]

\* lines 230-265 for one key
LspInfo(lsp) ==
    LET phasedlc(n) == [plot   |-> DecodeIfBytes(lsp.phased[n + 1].plot),
                        period |-> Float(lsp.phased[n + 1].period),
                        epoch  |-> Float(lsp.phased[n + 1].epoch)]
    IN [nbestperiods |-> lsp.nbestperiods,
        periodogram  |-> DecodeIfBytes(lsp.periodogram),
        bestperiod   |-> lsp.bestperiod,
        phasedlc0 |-> phasedlc(0),
        phasedlc1 |-> phasedlc(1),
        phasedlc2 |-> phasedlc(2)]

\* a KeyError anywhere in lines 187-265
LoadResultRaises(cpdict) ==
    \/ ~(RequiredKeys \subseteq DOMAIN cpdict)
    \/ \E key \in PgramKeys \cap DOMAIN cpdict : Len(cpdict[key].phased) < 3

LoadResult(cpdict) ==
    LET base == {"objectid", "objectinfo", "objectcomments", "varinfo",
                 "finderchart", "magseries", "magseries_ndet", "cpstatus"}
    IN [k \in base \cup (PgramKeys \cap DOMAIN cpdict) |->
         CASE k = "objectid"       -> cpdict.objectid
           [] k = "objectinfo"     -> cpdict.objectinfo
           [] k = "objectcomments" ->
                IF "comments" \in DOMAIN cpdict THEN cpdict.comments ELSE None
           [] k = "varinfo"        -> cpdict.varinfo
           [] k = "finderchart"    -> DecodeIfBytes(cpdict.finderchart)
           [] k = "magseries"      -> DecodeIfBytes(cpdict.magseries.plot)
           [] k = "magseries_ndet" -> cpdict.magseries.times.size
           [] k = "cpstatus"       -> cpdict.status
           [] OTHER                -> LspInfo(cpdict[k])]

\* the envelope tells how many requests the server has received so far
FoundCheckplot_Stamped(fname, cpdict) ==
    [status |-> "ok",
     message |-> Msg("found checkplot %s", <<fname, nreq>>),
     readonly |-> readonly,
     result |-> LoadResult(cpdict)]

\* lines 208-223
FoundCheckplot(fname, cpdict) ==
    [status |-> "ok",
     message |-> Msg("found checkplot %s", <<fname>>),
     readonly |-> readonly,
     result |-> LoadResult(cpdict)]

\* json.dump(self.currentproject, outfd) on a file opened with 'w': the
\* file holds the JSON text of the whole dict and nothing else
JsonDump(project) == [json |-> project]

-----------------------------------------------------------------------------
(* Requests, futures and the initial state *)

\* A request not yet received
NoRequest ==
    [kind |-> "none", pc |-> "idle", token |-> EmptyToken,
     cpcontents |-> NoArg, savetopng |-> FALSE,
     objectid |-> NoArg, changes |-> NoArg,
     toolargs |-> [lctool |-> "none", startp |-> 0, endp |-> 0],
     resp |-> NewResponse,
     raised |-> FALSE,    \* an exception left the handler method
     nsubmit |-> 0,       \* executor.submit calls made by this request
     statted |-> FALSE]   \* os.path.exists was called by this request

NoFuture ==
    [fn |-> "none", st |-> "none", path |-> <<>>, updated |-> EmptyMap,
     rec |-> EmptyMap, ret |-> "none"]

\* self.executor.submit(fn, cpfpath[, updated])
NewFuture(fn, cpfpath, updated) ==
    [fn |-> fn, st |-> "queued", path |-> cpfpath, updated |-> updated,
     rec |-> EmptyMap, ret |-> "none"]

Init ==
    /\ readonly \in BOOLEAN
    /\ currentproject = [checkplots |-> InitCheckplots]
    /\ cplistfile = JsonDump([checkplots |-> InitCheckplots])
    /\ cpfiles = InitFiles
    /\ pngfiles = {}
    /\ reqs = [r \in ReqIds |-> NoRequest]
    /\ futures = [r \in ReqIds |-> NoFuture]
    /\ submitted = <<>>
    /\ nreq = 0

\* the IOLoop takes no request while a handler waits for its future
Arrives_Blocked(r) ==
    /\ r = nreq + 1 /\ r \in ReqIds
    /\ \A q \in ReqIds : reqs[q].pc # "await"

\* The next request arrives: requests are numbered in order of arrival
Arrives(r) == r = nreq + 1 /\ r \in ReqIds

\* The handler method ran to its end (escaped: an exception left it)
Returned(req, resp, escaped) ==
    [req EXCEPT !.pc = "done",
                !.raised = escaped,
                !.resp = IF escaped THEN HandleRequestException(resp)
                         ELSE AutoFinish(resp)]

\* The handler method is suspended at `yield self.executor.submit(...)`
Suspended(req, resp) ==
    [req EXCEPT !.pc = "await", !.resp = resp, !.nsubmit = @ + 1]

Submit(r, fut) ==
    /\ futures' = [futures EXCEPT ![r] = fut]
    /\ submitted' = Append(submitted, [req |-> r, fn |-> fut.fn, path |-> fut.path])

Resolved(r, fn) ==
    /\ reqs[r].pc = "await"
    /\ futures[r].fn = fn
    /\ futures[r].st = "done"

-----------------------------------------------------------------------------
(* Executor threads *)

\* _read_checkplot_picklefile(cpfpath)
WorkerReadPickle(r) ==
    /\ futures[r].fn = "read" /\ futures[r].st = "queued"
    /\ \E out \in ReadOutcomes :
         /\ out = "value" => ~ReadPickleRaises(futures[r].path)
         /\ futures' = [futures EXCEPT
                ![r].st = "done", ![r].ret = out,
                ![r].rec = IF out = "value" THEN ReadPickle(futures[r].path)
                           ELSE EmptyMap]
    /\ UNCHANGED <<readonly, currentproject, cplistfile, cpfiles, pngfiles,
                   reqs, submitted, nreq>>

\* checkplot_pickle_update, first half: read the current dict
WorkerUpdateRead(r) ==
    /\ futures[r].fn = "update" /\ futures[r].st = "queued"
    /\ \E out \in ReadOutcomes :
         /\ out = "value" => ~ReadPickleRaises(futures[r].path)
         /\ futures' = [futures EXCEPT
                ![r].st = IF out = "value" THEN "read" ELSE "done",
                ![r].ret = IF out = "value" THEN "none" ELSE "exc",
                ![r].rec = IF out = "value" THEN ReadPickle(futures[r].path)
                           ELSE EmptyMap]
    /\ UNCHANGED <<readonly, currentproject, cplistfile, cpfiles, pngfiles,
                   reqs, submitted, nreq>>

\* checkplot_pickle_update, second half: overlay the updates, write the
\* pickle, return its path
WorkerUpdateWrite(r) ==
    /\ futures[r].fn = "update" /\ futures[r].st = "read"
    /\ \E out \in SaveOutcomes :
         /\ futures' = [futures EXCEPT ![r].st = "done", ![r].ret = out]
         /\ cpfiles' = IF out = "value"
                       THEN [cpfiles EXCEPT ![futures[r].path] =
                               MergeCheckplot(futures[r].rec, futures[r].updated)]
                       ELSE cpfiles
    /\ UNCHANGED <<readonly, currentproject, cplistfile, pngfiles,
                   reqs, submitted, nreq>>

\* checkplot_pickle_to_png(cpfpath, cpfpng)
WorkerToPng(r) ==
    /\ futures[r].fn = "png" /\ futures[r].st = "queued"
    /\ \E out \in RenderOutcomes :
         /\ out = "value" => ~ReadPickleRaises(futures[r].path)
         /\ futures' = [futures EXCEPT ![r].st = "done", ![r].ret = out]
         /\ pngfiles' = IF out = "value"
                        THEN pngfiles \cup {CpfPng(futures[r].path)}
                        ELSE pngfiles
    /\ UNCHANGED <<readonly, currentproject, cplistfile, cpfiles,
                   reqs, submitted, nreq>>

-----------------------------------------------------------------------------
(* CheckplotHandler.get: load *)

LoadTokens ==
    {EmptyToken, BadToken, Tok("obj1.pkl"), Tok("obj2.pkl"), Tok("stray.pkl"),
     Tok("a&b.pkl"), Tok("short.pkl")}

\* self.checkplotfname, line 151
CheckplotFname(tok) == XhtmlEscape(B64Decode(tok))

\* lines 148-180 and 271-290: up to the yield
GetCheckplot(r, tok) ==
    /\ Arrives(r)
    /\ nreq' = r
    /\ LET req == [NoRequest EXCEPT !.kind = "load", !.token = tok]
           fname == CheckplotFname(tok)
           cpfpath == CpfPath(fname)
       IN IF tok.enc = "empty"
          THEN /\ reqs' = [reqs EXCEPT ![r] =
                    Returned(req, Write(NewResponse, NoCheckplotProvided), FALSE)]
               /\ UNCHANGED <<futures, submitted>>
          ELSE IF B64DecodeRaises(tok)
          THEN /\ reqs' = [reqs EXCEPT ![r] = Returned(req, NewResponse, TRUE)]
               /\ UNCHANGED <<futures, submitted>>
          ELSE IF InProject(fname)
          THEN LET resp == IF ~PathExists(cpfpath)
                           THEN Finish(Write(NewResponse,
                                             CouldntFindNoReadonly(cpfpath)))
                           ELSE NewResponse
               IN /\ reqs' = [reqs EXCEPT ![r] =
                        Suspended([req EXCEPT !.statted = TRUE], resp)]
                  /\ Submit(r, NewFuture("read", cpfpath, EmptyMap))
          ELSE /\ reqs' = [reqs EXCEPT ![r] =
                    Returned(req, Finish(Write(NewResponse, DoesntExist)), FALSE)]
               /\ UNCHANGED <<futures, submitted>>
    /\ UNCHANGED <<readonly, currentproject, cplistfile, cpfiles, pngfiles>>

\* lines 178-269: from the resumption of the yield
GetCheckplotResume(r) ==
    /\ reqs[r].kind = "load"
    /\ Resolved(r, "read")
    /\ LET req == reqs[r]
           cpdict == futures[r].rec
           fname == CheckplotFname(req.token)
       IN reqs' = [reqs EXCEPT ![r] =
            IF futures[r].ret = "exc" \/ LoadResultRaises(cpdict)
               \/ WriteRaises(req.resp)
            THEN Returned(req, req.resp, TRUE)
            ELSE Returned(req,
                    Finish(Write(req.resp, FoundCheckplot(fname, cpdict))),
                    FALSE)]
    /\ UNCHANGED <<readonly, currentproject, cplistfile, cpfiles, pngfiles,
                   futures, submitted, nreq>>

-----------------------------------------------------------------------------
(* CheckplotHandler.post: update *)

Changes1 ==
    [varinfo |-> V("vi1"), objectinfo |-> V("oi1"), comments |-> V("c1")]
\* a payload with a further top-level key
Changes2 ==
    [varinfo |-> V("vi2"), objectinfo |-> V("oi2"), comments |-> V("c2"),
     status |-> "edited"]
\* a payload without 'comments'
ChangesNoComments == [varinfo |-> V("vi1"), objectinfo |-> V("oi1")]

\* The update requests of the model: (token, cpcontents, savetopng)
UpdateArgs(tok, cpcontents, savetopng) ==
    [token |-> tok, cpcontents |-> cpcontents, savetopng |-> savetopng]
UpdateRequests ==
    {UpdateArgs(BadToken, JsonArg(Changes1), FALSE),
     UpdateArgs(EmptyToken, JsonArg(Changes1), FALSE),
     UpdateArgs(Tok("obj1.pkl"), NoArg, FALSE),
     UpdateArgs(Tok("obj1.pkl"), BadJson, FALSE),
     UpdateArgs(Tok("obj1.pkl"), JsonArg(ChangesNoComments), FALSE),
     UpdateArgs(Tok("obj1.pkl"), JsonArg(Changes1), FALSE),
     UpdateArgs(Tok("obj1.pkl"), JsonArg(Changes1), TRUE),
     UpdateArgs(Tok("obj1.pkl"), JsonArg(Changes2), FALSE),
     UpdateArgs(Tok("obj2.pkl"), JsonArg(Changes1), FALSE),
     UpdateArgs(Tok("stray.pkl"), JsonArg(Changes2), TRUE)}

\* the comments are not read from the payload
UpdateKeys_NoComments == {"varinfo", "objectinfo"}

UpdateKeys == {"varinfo", "objectinfo", "comments"}

\* lines 339-341: a KeyError when a key is missing
UpdatedRaises(cpcontents) == ~(UpdateKeys \subseteq DOMAIN cpcontents)
\* the whole payload is handed to the merge
Updated_WholePayload(cpcontents) == cpcontents
\* the comments are left out of the merge
Updated_NoComments(cpcontents) ==
    [k \in {"varinfo", "objectinfo"} |-> cpcontents[k]]
Updated(cpcontents) == [k \in UpdateKeys |-> cpcontents[k]]

\* The handler ran to its end / is suspended on a future
Ends(resp, escaped) ==
    [resp |-> resp, escaped |-> escaped, yields |-> FALSE, fut |-> NoFuture]
Yields(resp, fut) ==
    [resp |-> resp, escaped |-> FALSE, yields |-> TRUE, fut |-> fut]

\* lines 412-423, the except block: its own self.write raises on a finished
\* request, and that exception leaves the handler
PostExcept(resp) ==
    IF WriteRaises(resp)
    THEN Ends(resp, TRUE)
    ELSE Ends(Finish(Write(SetStatus(resp, 500), UpdateException)), FALSE)

\* lines 306-365: up to the first yield
PostUntilYield(tok, cpcontents) ==
    LET r1 == IF readonly
              THEN Finish(Write(SetStatus(NewResponse, 400), ReadonlyMode))
              ELSE NewResponse
    IN
    IF B64DecodeRaises(tok)
    THEN \* line 320 raises; self.cpfile is not set, so line 414 raises too
         Ends(r1, TRUE)
    ELSE
    LET cpfile == B64Decode(tok)
        nopayload == cpfile = "" \/ ~Truthy(cpcontents)
    IN
    IF nopayload /\ WriteRaises(r1) THEN PostExcept(r1)
    ELSE
    LET r2 == IF nopayload
              THEN Finish(Write(SetStatus(r1, 400), NoPayload))
              ELSE r1
    IN
    IF JsonLoadsRaises(cpcontents) THEN PostExcept(r2)
    ELSE IF UpdatedRaises(JsonLoads(cpcontents)) THEN PostExcept(r2)
    ELSE
    LET updated == Updated(JsonLoads(cpcontents))
        cpfpath == CpfPath(cpfile)
    IN
    IF ~PathExists(cpfpath) /\ WriteRaises(r2) THEN PostExcept(r2)
    ELSE
    LET r3 == IF ~PathExists(cpfpath)
              THEN Finish(Write(r2, CouldntFind(cpfpath)))
              ELSE r2
    IN Yields(r3, NewFuture("update", cpfpath, updated))

\* os.path.exists is reached at line 351
PostStats(tok, cpcontents) ==
    /\ ~B64DecodeRaises(tok)
    /\ ~(B64Decode(tok) = "" \/ ~Truthy(cpcontents)) \/ ~readonly
    /\ ~JsonLoadsRaises(cpcontents)
    /\ ~UpdatedRaises(JsonLoads(cpcontents))

\* lines 372-378
UpdateSuccessful(cpfpath, cpcontents, cpfpng) ==
    [status |-> "success",
     message |-> Msg("checkplot update successful", <<>>),
     readonly |-> readonly,
     result |-> [checkplot |-> cpfpath, unixtime |-> "time.time()",
                 changes |-> cpcontents, cpfpng |-> cpfpng]]

PngMakingFailed == [marker |-> "png making failed"]
PngPath(cpfpng) == [path |-> cpfpng]

\* lines 364-409: from the resumption of the first yield
PostAfterUpdate(req, fut) ==
    LET resp == req.resp
        cpcontents == JsonLoads(req.cpcontents)
    IN
    IF fut.ret = "exc" THEN PostExcept(resp)
    ELSE IF fut.ret = "value"
    THEN IF req.savetopng
         THEN Yields(resp, NewFuture("png", fut.path, EmptyMap))
         ELSE IF WriteRaises(resp) THEN PostExcept(resp)
         ELSE Ends(Finish(Write(resp,
                     UpdateSuccessful(fut.path, cpcontents, None))), FALSE)
    ELSE IF WriteRaises(resp) THEN PostExcept(resp)
    ELSE Ends(Finish(Write(SetStatus(resp, 500), BackendError)), FALSE)

\* lines 385-397: from the resumption of the second yield
PostAfterPng(req, fut) ==
    LET resp == req.resp
        cpcontents == JsonLoads(req.cpcontents)
        cpfpng == CpfPng(fut.path)
    IN
    IF fut.ret = "exc" \/ WriteRaises(resp) THEN PostExcept(resp)
    ELSE Ends(Finish(Write(resp,
                UpdateSuccessful(fut.path, cpcontents,
                    IF PngExists(cpfpng) THEN PngPath(cpfpng)
                    ELSE PngMakingFailed))), FALSE)

\* The request after a part of the handler ran with outcome `o`
After(req, o) ==
    IF o.yields THEN Suspended(req, o.resp)
    ELSE Returned(req, o.resp, o.escaped)

PostCheckplot(r, tok, cpcontents, savetopng) ==
    /\ Arrives(r)
    /\ nreq' = r
    /\ LET req == [NoRequest EXCEPT !.kind = "update", !.token = tok,
                                    !.cpcontents = cpcontents,
                                    !.savetopng = savetopng,
                                    !.statted = PostStats(tok, cpcontents)]
           o == PostUntilYield(tok, cpcontents)
       IN /\ reqs' = [reqs EXCEPT ![r] = After(req, o)]
          /\ IF o.yields THEN Submit(r, o.fut)
             ELSE UNCHANGED <<futures, submitted>>
    /\ UNCHANGED <<readonly, currentproject, cplistfile, cpfiles, pngfiles>>

PostCheckplotResume(r) ==
    /\ reqs[r].kind = "update"
    /\ Resolved(r, "update")
    /\ LET o == PostAfterUpdate(reqs[r], futures[r])
       IN /\ reqs' = [reqs EXCEPT ![r] = After(reqs[r], o)]
          /\ IF o.yields THEN Submit(r, o.fut)
             ELSE UNCHANGED <<futures, submitted>>
    /\ UNCHANGED <<readonly, currentproject, cplistfile, cpfiles, pngfiles, nreq>>

PostCheckplotResumePng(r) ==
    /\ reqs[r].kind = "update"
    /\ Resolved(r, "png")
    /\ LET o == PostAfterPng(reqs[r], futures[r])
       IN reqs' = [reqs EXCEPT ![r] = After(reqs[r], o)]
    /\ UNCHANGED <<readonly, currentproject, cplistfile, cpfiles, pngfiles,
                   futures, submitted, nreq>>

-----------------------------------------------------------------------------
(* CheckplotListHandler: manifest read and write *)

\* The manifest writes of the model: (objectid, changes)
ReviewArgs(objectid, changes) == [objectid |-> objectid, changes |-> changes]
ReviewRequests ==
    {ReviewArgs(NoArg, JsonArg(V("variable"))),
     ReviewArgs(EmptyArg, JsonArg(V("variable"))),
     ReviewArgs(StrArg("obj1"), NoArg),
     ReviewArgs(StrArg("obj1"), EmptyArg),
     ReviewArgs(StrArg("obj1"), BadJson),
     ReviewArgs(StrArg("obj1"), JsonArg(V("variable"))),
     ReviewArgs(StrArg("obj1"), JsonArg(V("not variable"))),
     ReviewArgs(StrArg("a&b"), JsonArg(V("variable")))}

\* the str a present argument holds
ArgStr(arg) == IF arg.kind = "empty" THEN "" ELSE arg.val

\* lines 460-461 and 511-512
WithReviewed(project) ==
    IF "reviewed" \in DOMAIN project THEN project
    ELSE [k \in DOMAIN project \cup {"reviewed"} |->
            IF k = "reviewed" THEN EmptyMap ELSE project[k]]

\* an annotation already present is kept (setdefault)
SetReviewed_KeepFirst(project, objectid, changes) ==
    [project EXCEPT !.reviewed =
        [k \in DOMAIN @ \cup {objectid} |->
            IF k \in DOMAIN @ THEN @[k] ELSE changes]]

\* line 514: self.currentproject['reviewed'][objectid] = changes
SetReviewed(project, objectid, changes) ==
    [project EXCEPT !.reviewed =
        [k \in DOMAIN @ \cup {objectid} |->
            IF k = objectid THEN changes ELSE @[k]]]

\* lines 524-528
WroteChanges(objectid, changes) ==
    [status |-> "success",
     message |-> Msg("wrote all changes to the checkplot filelist from the frontend for object: %s",
                     <<objectid>>),
     readonly |-> readonly,
     result |-> [objectid |-> objectid, changes |-> changes]]

\* lines 452-464
GetCheckplotList(r) ==
    /\ Arrives(r)
    /\ nreq' = r
    /\ currentproject' = WithReviewed(currentproject)
    /\ reqs' = [reqs EXCEPT ![r] =
            Returned([NoRequest EXCEPT !.kind = "listget"],
                     Write(NewResponse, currentproject'), FALSE)]
    /\ UNCHANGED <<readonly, cplistfile, cpfiles, pngfiles, futures, submitted>>

\* lines 468-530
PostCheckplotList(r, objectid, changes) ==
    /\ Arrives(r)
    /\ nreq' = r
    /\ LET req == [NoRequest EXCEPT !.kind = "listpost",
                                    !.objectid = objectid, !.changes = changes]
           r1 == IF readonly
                 THEN Finish(Write(SetStatus(NewResponse, 400), ReadonlyMode))
                 ELSE NewResponse
           invalid == ~Truthy(objectid) \/ ~Truthy(changes)
           r2 == IF invalid THEN Finish(Write(r1, CouldNotParse)) ELSE r1
       IN IF invalid /\ WriteRaises(r1)
          THEN \* line 502 raises
               /\ reqs' = [reqs EXCEPT ![r] = Returned(req, r1, TRUE)]
               /\ UNCHANGED <<currentproject, cplistfile>>
          ELSE IF objectid.kind = "absent" \/ JsonLoadsRaises(changes)
          THEN \* xhtml_escape(None) at line 507 or json.loads at line 508 raises
               /\ reqs' = [reqs EXCEPT ![r] = Returned(req, r2, TRUE)]
               /\ UNCHANGED <<currentproject, cplistfile>>
          ELSE LET oid == XhtmlEscape(ArgStr(objectid))
                   ch == JsonLoads(changes)
               IN /\ currentproject' =
                        SetReviewed(WithReviewed(currentproject), oid, ch)
                  /\ cplistfile' = JsonDump(currentproject')
                  /\ reqs' = [reqs EXCEPT ![r] =
                        IF WriteRaises(r2)
                        THEN Returned(req, r2, TRUE)
                        ELSE Returned(req, Write(r2, WroteChanges(oid, ch)), FALSE)]
    /\ UNCHANGED <<readonly, cpfiles, pngfiles, futures, submitted>>

-----------------------------------------------------------------------------
(* LCToolHandler.get: tool dispatch *)

ToolTokens == {EmptyToken, BadToken, Tok("obj1.pkl"), Tok("obj2.pkl"), Tok("stray.pkl")}

\* The query arguments of a tool request (lines 566-594): lctool and, of
\* its toolargs, startp and endp
ToolArgs(lctool, startp, endp) ==
    [lctool |-> lctool, startp |-> startp, endp |-> endp]

\* The tool requests of the model: a Lomb-Scargle search over periods 1..10
\* of each token, and a BLS search of obj1.pkl with startp > endp
ToolRequests ==
    {[token |-> tok, toolargs |-> ToolArgs("psearch-gls", 1, 10)] :
        tok \in ToolTokens}
    \cup {[token |-> Tok("obj1.pkl"),
           toolargs |-> ToolArgs("psearch-bls", 10, 1)]}

\* lines 610-641 and 653-672: up to the yield. The handler never reads
\* lctool or toolargs.
GetLCTool(r, tok, toolargs) ==
    /\ Arrives(r)
    /\ nreq' = r
    /\ LET req == [NoRequest EXCEPT !.kind = "tool", !.token = tok,
                                    !.toolargs = toolargs]
           cpfile == XhtmlEscape(B64Decode(tok))
           cpfpath == CpfPath(cpfile)
       IN IF tok.enc = "empty"
          THEN /\ reqs' = [reqs EXCEPT ![r] =
                    Returned(req, Write(NewResponse, NoCheckplotProvided), FALSE)]
               /\ UNCHANGED <<futures, submitted>>
          ELSE IF B64DecodeRaises(tok)
          THEN /\ reqs' = [reqs EXCEPT ![r] = Returned(req, NewResponse, TRUE)]
               /\ UNCHANGED <<futures, submitted>>
          ELSE IF InProject(cpfile)
          THEN LET resp == IF ~PathExists(cpfpath)
                           THEN Finish(Write(NewResponse,
                                             CouldntFindNoReadonly(cpfpath)))
                           ELSE NewResponse
               IN /\ reqs' = [reqs EXCEPT ![r] =
                        Suspended([req EXCEPT !.statted = TRUE], resp)]
                  /\ Submit(r, NewFuture("read", cpfpath, EmptyMap))
          ELSE /\ reqs' = [reqs EXCEPT ![r] =
                    Returned(req, Finish(Write(NewResponse, DoesntExist)), FALSE)]
               /\ UNCHANGED <<futures, submitted>>
    /\ UNCHANGED <<readonly, currentproject, cplistfile, cpfiles, pngfiles>>

\* lines 639-650: from the resumption of the yield; nothing follows it
GetLCToolResume(r) ==
    /\ reqs[r].kind = "tool"
    /\ Resolved(r, "read")
    /\ reqs' = [reqs EXCEPT ![r] =
            Returned(reqs[r], reqs[r].resp, futures[r].ret = "exc")]
    /\ UNCHANGED <<readonly, currentproject, cplistfile, cpfiles, pngfiles,
                   futures, submitted, nreq>>

-----------------------------------------------------------------------------
(* The server *)

Load ==
    \/ \E r \in ReqIds, tok \in LoadTokens : GetCheckplot(r, tok)
    \/ \E r \in ReqIds : GetCheckplotResume(r)

Update ==
    \/ \E r \in ReqIds, a \in UpdateRequests :
          PostCheckplot(r, a.token, a.cpcontents, a.savetopng)
    \/ \E r \in ReqIds : PostCheckplotResume(r)
    \/ \E r \in ReqIds : PostCheckplotResumePng(r)

Manifest ==
    \/ \E r \in ReqIds : GetCheckplotList(r)
    \/ \E r \in ReqIds, a \in ReviewRequests :
          PostCheckplotList(r, a.objectid, a.changes)

Tool ==
    \/ \E r \in ReqIds, a \in ToolRequests : GetLCTool(r, a.token, a.toolargs)
    \/ \E r \in ReqIds : GetLCToolResume(r)

Executor ==
    \/ \E r \in ReqIds : WorkerReadPickle(r)
    \/ \E r \in ReqIds : WorkerUpdateRead(r)
    \/ \E r \in ReqIds : WorkerUpdateWrite(r)
    \/ \E r \in ReqIds : WorkerToPng(r)

Next == Load \/ Update \/ Manifest \/ Tool \/ Executor

Spec == Init /\ [][Next]_vars

\* The server receiving only loads, tool dispatches and manifest requests
NextLoad ==
    \/ Load
    \/ Tool
    \/ Manifest
    \/ \E r \in ReqIds : WorkerReadPickle(r)

SpecLoad == Init /\ [][NextLoad]_vars

\* The server receiving only updates
NextUpdate ==
    \/ Update
    \/ \E r \in ReqIds : WorkerUpdateRead(r)
    \/ \E r \in ReqIds : WorkerUpdateWrite(r)
    \/ \E r \in ReqIds : WorkerToPng(r)

SpecUpdate == Init /\ [][NextUpdate]_vars

\* The server receiving only manifest reads and writes
SpecManifest == Init /\ [][Manifest]_vars

-----------------------------------------------------------------------------
(* Vocabulary of the properties *)

IsEnvelope(x) == {"status", "message", "result"} \subseteq DOMAIN x
IsErrorEnvelope(x) == IsEnvelope(x) /\ x.status = "error"

\* the response is exactly one envelope, sent with the given status code
Answered(req, code, envelope) ==
    /\ req.resp.finished
    /\ req.resp.status = code
    /\ req.resp.body = <<envelope>>

\* the request made the i-th executor submission
SubmittedBy(r) == {i \in DOMAIN submitted : submitted[i].req = r}

\* the names listed in the manifest
Listed == {currentproject.checkplots[i] : i \in DOMAIN currentproject.checkplots}

\* the step in which request r is received and its handler runs
Receives(r, kind) == reqs[r].pc = "idle" /\ reqs'[r].kind = kind

-----------------------------------------------------------------------------
(* Properties *)

\* C1: in read-only mode every update request is answered with the status-400
\* read-only envelope, submits nothing to the executor and leaves the
\* pickles on disk as they were.
C1_ReadonlyUpdateRejected ==
    readonly =>
        /\ cpfiles = InitFiles
        /\ \A r \in ReqIds : reqs[r].kind = "update" =>
              /\ reqs[r].nsubmit = 0
              /\ SubmittedBy(r) = {}
              /\ reqs[r].pc = "done"
              /\ Answered(reqs[r], 400, ReadonlyMode)

\* C2: in read-only mode every manifest write is answered with the status-400
\* read-only envelope and changes neither the in-memory manifest nor the
\* manifest file.
C2_ReadonlyManifestWriteRejected ==
    [][\A r \in ReqIds :
         (readonly /\ Receives(r, "listpost")) =>
            /\ Answered(reqs'[r], 400, ReadonlyMode)
            /\ currentproject' = currentproject
            /\ cplistfile' = cplistfile]_vars

\* C3: every pickle read and every merge-and-save submitted to the executor
\* is for a name listed in the manifest.
C3_ManifestIsAuthority ==
    \A i \in DOMAIN submitted :
        submitted[i].fn \in {"read", "update"} => submitted[i].path[2] \in Listed

\* C4: a load of a listed name whose file is missing is answered with the
\* "couldn't find" error envelope and submits nothing to the executor.
C4_MissingFileRejected ==
    \A r \in ReqIds :
        (/\ reqs[r].kind = "load"
         /\ reqs[r].token.enc = "b64"
         /\ CheckplotFname(reqs[r].token) \in Listed
         /\ CpfPath(CheckplotFname(reqs[r].token)) \notin DOMAIN cpfiles)
        => /\ reqs[r].resp.finished
           /\ Len(reqs[r].resp.body) = 1
           /\ IsErrorEnvelope(reqs[r].resp.body[1])
           /\ reqs[r].resp.body[1].message.text = "couldn't find checkplot %s"
           /\ reqs[r].nsubmit = 0
           /\ SubmittedBy(r) = {}

\* C5: a load or tool dispatch naming a checkplot (the name the handler
\* resolves the token to) that the manifest does not list is answered with
\* the envelope {error, "This checkplot doesn't exist.", result null}; the
\* handler neither looks at the disk nor submits anything to the executor.
C5_UnknownIdentifier ==
    \A r \in ReqIds :
        (/\ reqs[r].kind \in {"load", "tool"}
         /\ reqs[r].token.enc = "b64"
         /\ XhtmlEscape(B64Decode(reqs[r].token)) \notin Listed)
        => /\ reqs[r].pc = "done"
           /\ Answered(reqs[r], 200,
                 [status |-> "error",
                  message |-> Msg("This checkplot doesn't exist.", <<>>),
                  readonly |-> readonly,
                  result |-> None])
           /\ ~reqs[r].raised
           /\ ~reqs[r].statted
           /\ reqs[r].nsubmit = 0
           /\ SubmittedBy(r) = {}
           /\ futures[r] = NoFuture

\* C5 witness: a load and a tool dispatch of stray.pkl, which is on disk but
\* not listed, have both been answered.
C5_Witness ==
    /\ CpfPath("stray.pkl") \in DOMAIN cpfiles
    /\ \E r, t \in ReqIds :
          /\ reqs[r].kind = "load" /\ reqs[r].token = Tok("stray.pkl")
          /\ reqs[t].kind = "tool" /\ reqs[t].token = Tok("stray.pkl")
          /\ reqs[r].pc = "done" /\ reqs[t].pc = "done"
          /\ reqs[r].resp.body = <<DoesntExist>>
          /\ reqs[t].resp.body = <<DoesntExist>>

\* C6: a load or update whose executor task resolved its future with an
\* exception ends with a status-500 error envelope, and no exception leaves
\* the handler.
C6_WorkerExceptionIsCaught ==
    \A r \in ReqIds :
        (/\ reqs[r].kind \in {"load", "update"}
         /\ reqs[r].pc = "done"
         /\ futures[r].ret = "exc")
        => /\ ~reqs[r].raised
           /\ reqs[r].resp.finished
           /\ reqs[r].resp.status = 500
           /\ Len(reqs[r].resp.body) = 1
           /\ IsErrorEnvelope(reqs[r].resp.body[1])

\* C7: an accepted update with the render flag whose merge succeeded and whose
\* render failed (no file written, or the task raised) is answered with the
\* success envelope carrying the render-failure marker, and the merge stays
\* on disk.
C7_RenderFailureIsFlagged ==
    \A r \in ReqIds :
        (/\ ~readonly
         /\ reqs[r].kind = "update"
         /\ reqs[r].savetopng
         /\ reqs[r].pc = "done"
         /\ futures[r].fn = "png"
         /\ futures[r].ret \in {"none", "exc"}
         /\ CpfPng(futures[r].path) \notin pngfiles)
        => /\ Answered(reqs[r], 200,
                 UpdateSuccessful(futures[r].path, JsonLoads(reqs[r].cpcontents),
                                  PngMakingFailed))
           /\ cpfiles[futures[r].path].varinfo
                 # InitFiles[futures[r].path].varinfo

\* C8: no step changes a field of a pickle on disk other than varinfo,
\* objectinfo and comments, whatever keys the payload of an update holds, and
\* the dict handed to checkplot_pickle_update holds exactly those three keys.
C8_MergeIsolation ==
    [][/\ \A p \in DOMAIN cpfiles :
            /\ p \in DOMAIN cpfiles'
            /\ DOMAIN cpfiles'[p] \subseteq
                  DOMAIN cpfiles[p] \cup {"varinfo", "objectinfo", "comments"}
            /\ \A k \in DOMAIN cpfiles[p] \ {"varinfo", "objectinfo", "comments"} :
                  /\ k \in DOMAIN cpfiles'[p]
                  /\ cpfiles'[p][k] = cpfiles[p][k]
       /\ \A r \in ReqIds :
            futures'[r].fn = "update" =>
                DOMAIN futures'[r].updated = {"varinfo", "objectinfo", "comments"}
      ]_vars

\* C8 witness: an update whose payload also holds a 'status' key has been
\* answered as successful; the pickle holds the payload's three fields and
\* its own status.
C8_Witness ==
    \E r \in ReqIds :
        /\ reqs[r].kind = "update"
        /\ reqs[r].pc = "done"
        /\ reqs[r].cpcontents = JsonArg(Changes2)
        /\ Len(reqs[r].resp.body) = 1
        /\ IsEnvelope(reqs[r].resp.body[1])
        /\ reqs[r].resp.body[1].status = "success"
        /\ cpfiles[futures[r].path].varinfo = Changes2.varinfo
        /\ cpfiles[futures[r].path].objectinfo = Changes2.objectinfo
        /\ cpfiles[futures[r].path].comments = Changes2.comments
        /\ cpfiles[futures[r].path].status = InitFiles[futures[r].path].status
        /\ Changes2.status # InitFiles[futures[r].path].status

\* the reviewed entries of a manifest dict
ReviewedOf(project) ==
    IF "reviewed" \in DOMAIN project THEN project.reviewed ELSE EmptyMap

\* a manifest write the handler accepts
AcceptedWrite(req) ==
    /\ ~readonly
    /\ req.objectid.kind = "str"
    /\ req.changes.kind = "json"

\* C9: the step of an accepted manifest write (objectid, changes) leaves
\* reviewed[objectid] (objectid as the handler sanitises it, line 507) equal
\* to the submitted annotation and the manifest file holding the complete
\* in-memory manifest; and in every state the file holds every reviewed entry
\* of the in-memory manifest and the same list of checkplots.
C9_ManifestWriteThrough ==
    /\ [](/\ cplistfile.json.checkplots = currentproject.checkplots
          /\ ReviewedOf(cplistfile.json) = ReviewedOf(currentproject))
    /\ [][\A r \in ReqIds :
            (Receives(r, "listpost") /\ AcceptedWrite(reqs'[r])) =>
               LET objectid == XhtmlEscape(reqs'[r].objectid.val)
               IN /\ objectid \in DOMAIN currentproject'.reviewed
                  /\ currentproject'.reviewed[objectid] = reqs'[r].changes.val
                  /\ cplistfile' = [json |-> currentproject']]_vars

\* C9 witness: two accepted writes for the same object with different
\* annotations; the manifest and the file hold the second.
C9_Witness ==
    /\ MaxReqs >= 2
    /\ AcceptedWrite(reqs[1]) /\ reqs[1].kind = "listpost"
    /\ AcceptedWrite(reqs[2]) /\ reqs[2].kind = "listpost"
    /\ reqs[1].objectid = reqs[2].objectid
    /\ reqs[1].changes # reqs[2].changes
    /\ currentproject.reviewed[XhtmlEscape(reqs[2].objectid.val)]
          = reqs[2].changes.val
    /\ cplistfile = [json |-> currentproject]

\* C10: a manifest write whose objectid or changes is absent or empty is
\* answered with a 400-class error envelope, changes neither the in-memory
\* manifest nor the file, and no exception leaves the handler.
C10_InvalidManifestWriteRejected ==
    [][\A r \in ReqIds :
         (/\ ~readonly
          /\ Receives(r, "listpost")
          /\ (~Truthy(reqs'[r].objectid) \/ ~Truthy(reqs'[r].changes)))
         => /\ ~reqs'[r].raised
            /\ reqs'[r].resp.finished
            /\ reqs'[r].resp.status \in 400..499
            /\ Len(reqs'[r].resp.body) = 1
            /\ IsErrorEnvelope(reqs'[r].resp.body[1])
            /\ currentproject' = currentproject
            /\ cplistfile' = cplistfile]_vars

\* C11: a request whose response is finished is in a terminal state: its
\* handler is not suspended on a future, and no later step writes to its
\* response, makes a submission for it or changes a file on its behalf.
C11_FinishedIsTerminal ==
    /\ [](\A r \in ReqIds : reqs[r].resp.finished => reqs[r].pc = "done")
    /\ [][\A r \in ReqIds :
            reqs[r].resp.finished =>
               /\ reqs'[r].resp = reqs[r].resp
               /\ reqs'[r].nsubmit = reqs[r].nsubmit
               /\ futures'[r] # futures[r] =>
                     (cpfiles' = cpfiles /\ pngfiles' = pngfiles)]_vars

\* C12: a tool dispatch whose period bounds are out of domain
\* (startp >= endp) is answered with a 400-class error envelope and submits
\* nothing to the executor.
C12_InvalidParameterRejected ==
    \A r \in ReqIds :
        (/\ reqs[r].kind = "tool"
         /\ reqs[r].toolargs.lctool = "psearch-bls"
         /\ reqs[r].toolargs.startp >= reqs[r].toolargs.endp)
        => /\ reqs[r].nsubmit = 0
           /\ SubmittedBy(r) = {}
           /\ reqs[r].pc = "done"
           /\ reqs[r].resp.finished
           /\ reqs[r].resp.status \in 400..499
           /\ Len(reqs[r].resp.body) = 1
           /\ IsErrorEnvelope(reqs[r].resp.body[1])

\* the keys of a period-search bundle in the response (lines 246-265)
BundleKeys ==
    {"nbestperiods", "periodogram", "bestperiod",
     "phasedlc0", "phasedlc1", "phasedlc2"}

\* C13: a completed tool dispatch for a listed checkplot that is on disk and
\* was read by the worker has answered with one envelope whose result is one
\* bundle, and the pickles and the manifest are as they were.
C13_ToolDispatchReturnsBundle ==
    \A r \in ReqIds :
        (/\ reqs[r].kind = "tool"
         /\ reqs[r].toolargs.lctool = "psearch-gls"
         /\ reqs[r].token.enc = "b64"
         /\ XhtmlEscape(B64Decode(reqs[r].token)) \in Listed
         /\ CpfPath(XhtmlEscape(B64Decode(reqs[r].token))) \in DOMAIN cpfiles
         /\ reqs[r].pc = "done"
         /\ futures[r].ret = "value")
        => /\ reqs[r].resp.finished
           /\ Len(reqs[r].resp.body) = 1
           /\ IsEnvelope(reqs[r].resp.body[1])
           /\ reqs[r].resp.body[1].status = "ok"
           /\ BundleKeys \subseteq DOMAIN reqs[r].resp.body[1].result
           /\ cpfiles[futures[r].path] = futures[r].rec
           /\ currentproject.checkplots = InitCheckplots

\* the steps request r can take once it is suspended: its task on an executor
\* thread, or the resumption of its handler
Proceeds(r) ==
    \/ WorkerReadPickle(r) \/ WorkerUpdateRead(r) \/ WorkerUpdateWrite(r)
    \/ WorkerToPng(r)
    \/ GetCheckplotResume(r) \/ PostCheckplotResume(r)
    \/ PostCheckplotResumePng(r) \/ GetLCToolResume(r)

\* the step in which the merge task of request r writes the pickle
Saves(r) ==
    /\ futures[r].fn = "update" /\ futures[r].st = "read"
    /\ futures'[r].st = "done" /\ futures'[r].ret = "value"

\* C14: updates exclude each other nowhere and the last save wins: a
\* suspended update can always take its next step whatever the other requests
\* do; every save leaves varinfo, objectinfo and comments of the pickle equal
\* to the payload of the request that saved, and all its other fields as they
\* were; and nothing but a save changes a pickle.
C14_LastWriteWins ==
    /\ [](\A r \in ReqIds :
            (reqs[r].kind = "update" /\ reqs[r].pc = "await")
                => ENABLED Proceeds(r))
    /\ [][/\ \A r \in ReqIds :
               Saves(r) =>
                  LET p == futures[r].path
                      payload == JsonLoads(reqs[r].cpcontents)
                  IN /\ \A k \in {"varinfo", "objectinfo", "comments"} :
                          /\ k \in DOMAIN cpfiles'[p]
                          /\ cpfiles'[p][k] = payload[k]
                     /\ \A k \in DOMAIN cpfiles[p]
                                   \ {"varinfo", "objectinfo", "comments"} :
                          cpfiles'[p][k] = cpfiles[p][k]
          /\ cpfiles' # cpfiles => \E r \in ReqIds : Saves(r)]_vars

\* C14 witness: two updates of obj1.pkl with different payloads, both of
\* which read the pickle before either wrote it, have both been answered as
\* successful; the pickle holds the payload of the one that arrived first.
C14_Witness ==
    \E a, b \in ReqIds :
        /\ a < b
        /\ reqs[a].kind = "update" /\ reqs[b].kind = "update"
        /\ reqs[a].token = Tok("obj1.pkl") /\ reqs[b].token = Tok("obj1.pkl")
        /\ reqs[a].pc = "done" /\ reqs[b].pc = "done"
        /\ ~reqs[a].savetopng /\ ~reqs[b].savetopng
        /\ futures[a].ret = "value" /\ futures[b].ret = "value"
        /\ futures[a].rec = InitFiles[CpfPath("obj1.pkl")]
        /\ futures[b].rec = InitFiles[CpfPath("obj1.pkl")]
        /\ reqs[a].cpcontents = JsonArg(Changes1)
        /\ reqs[b].cpcontents = JsonArg(Changes2)
        /\ cpfiles[CpfPath("obj1.pkl")].varinfo = Changes1.varinfo
        /\ cpfiles[CpfPath("obj1.pkl")].objectinfo = Changes1.objectinfo
        /\ cpfiles[CpfPath("obj1.pkl")].comments = Changes1.comments
        /\ cpfiles[CpfPath("obj1.pkl")].gls = GlsResult

C16_EnvelopeShape ==
    \A r \in ReqIds :
        reqs[r].kind \in {"load", "update", "listpost", "tool"} =>
           \A i \in DOMAIN reqs[r].resp.body :
              LET x == reqs[r].resp.body[i]
              IN x # TornadoErrorPage =>
                    /\ DOMAIN x = {"status", "message", "readonly", "result"}
                    /\ x.status \in {"ok", "error"}
                    /\ x.readonly = readonly

\* C17: whenever the worker returned a record to a load request that had not
\* answered yet, the handler answers with one envelope and raises nothing,
\* and the record on disk is the record that was read; this includes records
\* without comments and records with fewer than three phased entries.
C17_AssemblyIsTotal ==
    \A r \in ReqIds :
        (/\ reqs[r].kind = "load" /\ reqs[r].pc = "done"
         /\ reqs[r].nsubmit = 1
         /\ futures[r].ret = "value"
         /\ PathExists(futures[r].path))
        => /\ ~reqs[r].raised
           /\ Len(reqs[r].resp.body) = 1
           /\ IsEnvelope(reqs[r].resp.body[1])
           /\ cpfiles[futures[r].path] = futures[r].rec

\* the load was answered with the "found checkplot" envelope
LoadSucceeded(r) ==
    /\ reqs[r].kind = "load" /\ reqs[r].pc = "done"
    /\ Len(reqs[r].resp.body) = 1
    /\ IsEnvelope(reqs[r].resp.body[1])
    /\ reqs[r].resp.body[1].status = "ok"

\* C18: the result of a successful load has an entry for exactly the method
\* tags of the record that was read; each entry has nbestperiods, periodogram
\* and bestperiod of the record's entry, and phasedlcN has the plot, period
\* and epoch of the record's N-th phased entry.
C18_BundlesFollowRecord ==
    \A r \in ReqIds :
        LoadSucceeded(r) =>
           LET rec == futures[r].rec
               res == reqs[r].resp.body[1].result
               phasedlc(b, n) == CASE n = 0 -> b.phasedlc0
                                   [] n = 1 -> b.phasedlc1
                                   [] n = 2 -> b.phasedlc2
           IN /\ DOMAIN res \cap PgramKeys = DOMAIN rec \cap PgramKeys
              /\ \A key \in DOMAIN rec \cap PgramKeys :
                    /\ DOMAIN res[key] = BundleKeys
                    /\ res[key].nbestperiods = rec[key].nbestperiods
                    /\ res[key].periodogram.data = rec[key].periodogram.data
                    /\ res[key].bestperiod = rec[key].bestperiod
                    /\ \A n \in 0..2 :
                          LET out == phasedlc(res[key], n)
                              src == rec[key].phased[n + 1]
                          IN /\ out.plot.data = src.plot.data
                             /\ out.period.n = src.period.n
                             /\ out.epoch.n = src.epoch.n

\* C18 witness: obj1.pkl, which has a gls search and no other, was loaded
C18_Witness ==
    \E r \in ReqIds :
        /\ LoadSucceeded(r)
        /\ reqs[r].token = Tok("obj1.pkl")
        /\ "gls" \in DOMAIN reqs[r].resp.body[1].result
        /\ "pdm" \notin DOMAIN reqs[r].resp.body[1].result
        /\ reqs[r].resp.body[1].result.gls.phasedlc1.period.n = 5

\* C19: no step of a load request, in the handler or on the executor, changes
\* a pickle, a rendered file, the manifest in memory or the manifest file; and
\* two loads of the same name that the worker served from the same record
\* and that the handler answered got the same response.
C19_LoadReadOnlyIdempotent ==
    /\ [](\A a, b \in ReqIds :
            (/\ reqs[a].kind = "load" /\ reqs[b].kind = "load"
             /\ reqs[a].token = reqs[b].token
             /\ reqs[a].pc = "done" /\ reqs[b].pc = "done"
             /\ reqs[a].nsubmit = 1 /\ reqs[b].nsubmit = 1
             /\ futures[a].ret = "value" /\ futures[b].ret = "value"
             /\ futures[a].rec = futures[b].rec)
            => reqs[a].resp = reqs[b].resp)
    /\ [][\A r \in ReqIds :
            (/\ reqs'[r].kind = "load"
             /\ (reqs'[r] # reqs[r] \/ futures'[r] # futures[r]))
            => /\ cpfiles' = cpfiles
               /\ pngfiles' = pngfiles
               /\ currentproject' = currentproject
               /\ cplistfile' = cplistfile]_vars

\* C19 witness: obj1.pkl was loaded twice and both loads succeeded
C19_Witness ==
    \E a, b \in ReqIds :
        /\ a < b
        /\ LoadSucceeded(a) /\ LoadSucceeded(b)
        /\ reqs[a].token = Tok("obj1.pkl") /\ reqs[b].token = Tok("obj1.pkl")
        /\ futures[a].rec = Obj1Record /\ futures[b].rec = Obj1Record

\* the executor submissions of request r that run fn
Submissions(r, fn) == {i \in SubmittedBy(r) : submitted[i].fn = fn}

\* per request: a load that was dispatched or answered with the checkplot made
\* one read submission and no other; an update made at most one merge and at
\* most one render submission, one merge if it was dispatched, and a render
\* only with the render flag set and after its merge
SubmissionCounts ==
    \A r \in ReqIds :
        /\ reqs[r].nsubmit = Cardinality(SubmittedBy(r))
        /\ reqs[r].kind = "load" =>
              /\ Cardinality(SubmittedBy(r)) <= 1
              /\ SubmittedBy(r) = Submissions(r, "read")
              /\ (reqs[r].pc = "await" \/ LoadSucceeded(r)) =>
                    Cardinality(Submissions(r, "read")) = 1
        /\ reqs[r].kind = "update" =>
              /\ SubmittedBy(r) = Submissions(r, "update") \cup Submissions(r, "png")
              /\ Cardinality(Submissions(r, "update")) <= 1
              /\ Cardinality(Submissions(r, "png")) <= 1
              /\ reqs[r].pc = "await" =>
                    Cardinality(Submissions(r, "update")) = 1
              /\ \A j \in Submissions(r, "png") :
                    /\ reqs[r].savetopng
                    /\ \E i \in Submissions(r, "update") : i < j

\* a step that submits a render for request r finds r's merge resolved with
\* the written path
RenderAfterMerge ==
    \A r \in ReqIds :
        Submissions(r, "png")' # Submissions(r, "png") =>
           /\ futures[r].fn = "update"
           /\ futures[r].st = "done"
           /\ futures[r].ret = "value"

\* C20: the submissions of every request are counted and ordered as above,
\* and a response is finished only when its request waits for no future:
\* every submitted future has resolved and the handler has resumed from it.
C20_SubmissionsCountedAndAwaited ==
    /\ [](SubmissionCounts)
    /\ [][RenderAfterMerge]_vars
    /\ [](\A r \in ReqIds : reqs[r].pc = "await" => ~reqs[r].resp.finished)

\* the update request names a checkplot and carries a JSON payload without
\* at least one of the keys varinfo, objectinfo and comments
LacksKey(req) ==
    /\ req.kind = "update"
    /\ req.token.enc = "b64" /\ req.token.of # ""
    /\ req.cpcontents.kind = "json"
    /\ {"varinfo", "objectinfo", "comments"} \ DOMAIN req.cpcontents.val # {}

C22_ManifestFrame ==
    [][/\ currentproject' # currentproject =>
             \E r \in ReqIds :
                Receives(r, "listpost") /\ AcceptedWrite(reqs'[r])
       /\ currentproject'.checkplots = currentproject.checkplots]_vars

====
